---- MODULE Spec2Model ----
(***************************************************************************)
(* Model of src/src/Main.cpp: GPU context bring-up (Tasks 1.1 - 1.8), the   *)
(* one-time frame resource wiring, the render loop (Task 1.9) and the       *)
(* cleanup (Task 1.10), together with the helpers defined below main.       *)
(***************************************************************************)
EXTENDS Integers, Sequences, FiniteSets, TLC

(* ------------------------------ bounds -------------------------------- *)
MaxFamilies == 2       \* queue families a device may report
MaxDevices == 1        \* physical devices the driver may enumerate
MaxImages == 2         \* largest surface_capabilities.minImageCount
MaxFrames == 2         \* loop iterations explored
MaxEvents == 1         \* key events delivered by one glfwPollEvents
MaxKeyCalls == 6       \* callback invocations made directly on the handler
MaxExtensions == 1     \* merged required instance extensions

(* ----------------------------- value sets ----------------------------- *)
VK_SUCCESS == "VK_SUCCESS"
VK_INCOMPLETE == "VK_INCOMPLETE"
VK_ERROR == "VK_ERROR_INITIALIZATION_FAILED"
VkResults == {VK_SUCCESS, VK_ERROR}

GLFW_PRESS == "GLFW_PRESS"
GLFW_RELEASE == "GLFW_RELEASE"
GLFW_REPEAT == "GLFW_REPEAT"
GLFW_KEY_ESCAPE == "GLFW_KEY_ESCAPE"
GLFW_KEY_W == "GLFW_KEY_W"
KeyCodes == {GLFW_KEY_ESCAPE, GLFW_KEY_W}
KeyActions == {GLFW_PRESS, GLFW_RELEASE, GLFW_REPEAT}
KeyEvents == [key : KeyCodes, action : KeyActions]

\* No value returned: the callee terminated the process instead.
NoIndex == -1

\* A queue family as the two driver queries of selectQueueFamilyIndex see it.
QueueFamily == [graphics : BOOLEAN, present : BOOLEAN]

SeqsUpTo(S, n) == UNION {[1..k -> S] : k \in 0..n}

\* Matrices: the initial transformation and the ones the camera may return.
InitialTransformation == "flipYZ"
InitialColor == "orange"
\* The uniform buffer before vklCreateHostCoherentBufferWithBackingMemory: no contents.
NoBufferContents == [color |-> "none", transformation |-> "none"]
CameraMatrices == {"viewProjA", "viewProjB"}

VARIABLES
  pc,                 \* position of main
  exitCode,           \* -1 while running, 0 = EXIT_SUCCESS, 1 = EXIT_FAILURE
  failedAt,           \* message of the VKL_EXIT_WITH_ERROR taken, "" if none
  created,            \* sequence of objects created, in creation order
  destroyed,          \* sequence of objects destroyed, in destruction order
  nonnull,            \* handles of main that are non-null
  oobRead,            \* phys_devices was indexed outside its bounds
  failedCall,         \* first creation call that reported failure, "" if none
  extensionsSupported,\* "yes" if the driver supports every merged extension, "no" if not
  layerSupported,     \* "yes" / "no": driver support of the validation layer
  num_physical_devices,
  idx_phys_device,
  queue_families,     \* local vector of selectQueueFamilyIndex, driver order
  selected_queue_family_index,
  queue_family_count,
  minImageCount,      \* surface_capabilities.minImageCount
  driverImages,       \* images the swapchain really holds
  image_count,        \* count written back by vkGetSwapchainImagesKHR
  imagesResult,       \* status returned by vkGetSwapchainImagesKHR, "none" before
  swapchainImages,    \* swapchain_config.swapchainImages handed to the framework
  frameworkInits,     \* number of vklInitFramework calls
  descriptorOps,      \* descriptor calls made, in order
  shouldClose,        \* the window's close flag
  g_isGlfwKeyDown,    \* key-state map: "absent" (no entry), "true" or "false"
  uniform_buffer_data,\* host copy of UniformBufferData
  gpuBuffer,          \* contents of the host-coherent buffer
  cameraMatrix,       \* the camera's current view-projection matrix
  itersStarted,       \* loop iterations entered
  frames,             \* loop iterations completed (presented)
  frameSteps,         \* steps performed in the current iteration
  curImage,           \* swapchain image acquired for the current frame, or -1
  nextImage,          \* image the swapchain hands out next
  inFlight,           \* images whose frame the GPU has not retired
  recording,          \* command recording started and not ended
  idleDone,           \* vkDeviceWaitIdle has returned
  cleanupIdx,         \* number of cleanup statements executed
  closedAtFirstCheck, \* close flag seen by the first loop-top check ("unset" before)
  escIter,            \* iteration in which an Escape release was drained, 0 if none
  lastKeyAction,      \* per key: its most recent press or release event, "none" if none
  keyCalls            \* callback invocations made directly on the handler

vars == <<pc, exitCode, failedAt, created, destroyed, nonnull, oobRead, failedCall,
          extensionsSupported, layerSupported,
          num_physical_devices, idx_phys_device, queue_families,
          selected_queue_family_index, queue_family_count, minImageCount,
          driverImages, image_count, imagesResult, swapchainImages, frameworkInits,
          descriptorOps, shouldClose, g_isGlfwKeyDown, uniform_buffer_data,
          gpuBuffer, cameraMatrix, itersStarted, frames, frameSteps,
          curImage, nextImage, inFlight, recording, idleDone, cleanupIdx,
          closedAtFirstCheck, escIter, lastKeyAction, keyCalls>>

bringupVars == <<created, nonnull, oobRead, failedCall, extensionsSupported, layerSupported,
                 num_physical_devices, idx_phys_device,
                 queue_families, selected_queue_family_index, queue_family_count,
                 minImageCount, driverImages, image_count, imagesResult, swapchainImages,
                 frameworkInits, descriptorOps>>
inputVars == <<g_isGlfwKeyDown, escIter, lastKeyAction, keyCalls>>
uniformVars == <<uniform_buffer_data, gpuBuffer, cameraMatrix>>
loopVars == <<itersStarted, frames, frameSteps, curImage, nextImage, recording,
              closedAtFirstCheck>>
teardownVars == <<destroyed, idleDone, cleanupIdx>>

Init ==
  /\ pc = "glfwInit"
  /\ exitCode = -1
  /\ failedAt = ""
  /\ created = <<>>
  /\ destroyed = <<>>
  /\ nonnull = {}
  /\ oobRead = FALSE
  /\ failedCall = ""
  /\ extensionsSupported = "unknown"
  /\ layerSupported = "unknown"
  /\ num_physical_devices = 0
  /\ idx_phys_device = 0
  /\ queue_families = <<>>
  /\ selected_queue_family_index = NoIndex
  /\ queue_family_count = 0
  /\ minImageCount = 0
  /\ driverImages = 0
  /\ image_count = 0
  /\ imagesResult = "none"
  /\ swapchainImages = <<>>
  /\ frameworkInits = 0
  /\ descriptorOps = <<>>
  /\ shouldClose = FALSE
  /\ g_isGlfwKeyDown = [k \in KeyCodes |-> "absent"]
  /\ uniform_buffer_data = [color |-> InitialColor, transformation |-> InitialTransformation]
  /\ gpuBuffer = NoBufferContents
  /\ cameraMatrix = "none"
  /\ itersStarted = 0
  /\ frames = 0
  /\ frameSteps = <<>>
  /\ curImage = -1
  /\ nextImage = 0
  /\ inFlight = {}
  /\ recording = FALSE
  /\ idleDone = FALSE
  /\ cleanupIdx = 0
  /\ closedAtFirstCheck = "unset"
  /\ escIter = 0
  /\ lastKeyAction = [k \in KeyCodes |-> "none"]
  /\ keyCalls = 0

(* --------------------------- fatal termination ------------------------ *)
\* VKL_EXIT_WITH_ERROR(msg): the process terminates with an error status; no
\* statement after it runs and nothing is released by it.
VKL_EXIT_WITH_ERROR(msg) ==
  /\ pc' = "exited"
  /\ exitCode' = 1
  /\ failedAt' = msg

\* VKL_CHECK_VULKAN_RESULT(result): a non-success status is fatal.
ResultIsFatal(result) == result # VK_SUCCESS

Goto(label) ==
  /\ pc' = label
  /\ UNCHANGED <<exitCode, failedAt>>

\* Outcome of one creation call: "ok" (success status, handle assigned),
\* "error" (non-success status) or "null" (success status, null handle).
Outcomes == {"ok", "error", "null"}

(* ----------------------- helpers defined below main ------------------- *)
\* selectQueueFamilyIndex: the loop over the families in driver order, from
\* queue_family_index on; NoIndex when the loop ends and the function exits
\* the process instead of returning.
\* Variant: the presentation query is skipped, a graphics family is enough.
RECURSIVE selectFromGraphicsOnly(_, _)
selectFromGraphicsOnly(fams, queue_family_index) ==
  IF queue_family_index > Len(fams) THEN NoIndex
  ELSE IF fams[queue_family_index].graphics
       THEN queue_family_index - 1
       ELSE selectFromGraphicsOnly(fams, queue_family_index + 1)

\* Variant: index 0 is returned when the loop finds nothing.
RECURSIVE selectFromFallback(_, _)
selectFromFallback(fams, queue_family_index) ==
  IF queue_family_index > Len(fams) THEN 0
  ELSE IF fams[queue_family_index].graphics /\ fams[queue_family_index].present
       THEN queue_family_index - 1
       ELSE selectFromFallback(fams, queue_family_index + 1)

RECURSIVE selectFrom(_, _)
selectFrom(fams, queue_family_index) ==
  IF queue_family_index > Len(fams) THEN NoIndex
  ELSE IF fams[queue_family_index].graphics /\ fams[queue_family_index].present
       THEN queue_family_index - 1
       ELSE selectFrom(fams, queue_family_index + 1)

selectQueueFamilyIndex(fams) == selectFrom(fams, 1)

\* vkGetSwapchainImagesKHR with an array of 'capacity' elements on a
\* swapchain holding 'actual' images: writes at most 'capacity' handles and
\* reports how many it wrote; VK_INCOMPLETE when not all fitted.
ImagesWritten(capacity, actual) == IF actual < capacity THEN actual ELSE capacity
ImagesResult(capacity, actual, r) == IF actual > capacity THEN VK_INCOMPLETE ELSE r

(* ------------------------------ bring-up ------------------------------ *)
restVars == <<inputVars, uniformVars, loopVars, teardownVars, inFlight, shouldClose>>

\* glfwInit
GlfwInit ==
  /\ pc = "glfwInit"
  /\ \E ok \in BOOLEAN :
       IF ok THEN Goto("t1_1") ELSE VKL_EXIT_WITH_ERROR("Failed to init GLFW")
  /\ UNCHANGED <<bringupVars, restVars>>

\* Task 1.1: glfwCreateWindow, null check, key callback installed.
Task1_1 ==
  /\ pc = "t1_1"
  /\ \E ok \in BOOLEAN :
       IF ok
       THEN /\ created' = Append(created, "window")
            /\ nonnull' = nonnull \cup {"window"}
            /\ Goto("t1_2")
       ELSE /\ VKL_EXIT_WITH_ERROR("No GLFW window created.")
            /\ UNCHANGED <<created, nonnull>>
  /\ UNCHANGED <<oobRead, failedCall, extensionsSupported, layerSupported, num_physical_devices, idx_phys_device, queue_families,
                 selected_queue_family_index, queue_family_count, minImageCount,
                 driverImages, image_count, imagesResult, swapchainImages, frameworkInits,
                 descriptorOps, restVars>>

\* Variant: the null-handle check after the status check is missing.
CheckedCreateNoNullCheck(o, call, object, handle, nullMsg, next) ==
  IF o = "ok"
  THEN /\ created' = Append(created, object)
       /\ nonnull' = nonnull \cup {handle}
       /\ UNCHANGED failedCall
       /\ Goto(next)
  ELSE /\ failedCall' = IF failedCall = "" THEN call ELSE failedCall
       /\ UNCHANGED <<created, nonnull>>
       /\ IF o = "error" THEN VKL_EXIT_WITH_ERROR(call) ELSE Goto(next)

\* A checked creation call (status check, then null-handle check).
CheckedCreate(o, call, object, handle, nullMsg, next) ==
  IF o = "ok"
  THEN /\ created' = Append(created, object)
       /\ nonnull' = nonnull \cup {handle}
       /\ UNCHANGED failedCall
       /\ Goto(next)
  ELSE /\ failedCall' = IF failedCall = "" THEN call ELSE failedCall
       /\ UNCHANGED <<created, nonnull>>
       /\ VKL_EXIT_WITH_ERROR(IF o = "error" THEN call ELSE nullMsg)

\* Variant: the support loop reports nothing.
FirstUnsupportedUnchecked(supported) == 0

\* getRequiredInstanceExtensions, the loop over all_required_extensions: the
\* position of the first extension hlpIsInstanceExtensionSupported rejects, 0
\* if the loop runs to its end.
FirstUnsupported(supported) ==
  IF \E i \in 1..Len(supported) : ~supported[i]
  THEN CHOOSE i \in 1..Len(supported) :
         ~supported[i] /\ \A j \in 1..(i - 1) : supported[j]
  ELSE 0

YesNo(b) == IF b THEN "yes" ELSE "no"

\* Task 1.2: getRequiredInstanceExtensions (each merged extension checked in
\* order), validation layer check, vkCreateInstance.
Task1_2 ==
  /\ pc = "t1_2"
  /\ \E supported \in SeqsUpTo(BOOLEAN, MaxExtensions), layerOk \in BOOLEAN, o \in Outcomes :
       /\ extensionsSupported' = YesNo(\A i \in 1..Len(supported) : supported[i])
       /\ layerSupported' = YesNo(layerOk)
       /\ IF FirstUnsupported(supported) # 0
          THEN /\ VKL_EXIT_WITH_ERROR("Required extension is not supported")
               /\ UNCHANGED <<created, nonnull, failedCall>>
          ELSE IF ~layerOk
          THEN /\ VKL_EXIT_WITH_ERROR("Validation layer is not supported.")
               /\ UNCHANGED <<created, nonnull, failedCall>>
          ELSE CheckedCreate(o, "vkCreateInstance", "instance", "vk_instance",
                             "No VkInstance created or handle not assigned.", "t1_3")
  /\ UNCHANGED <<oobRead, num_physical_devices, idx_phys_device, queue_families,
                 selected_queue_family_index, queue_family_count, minImageCount,
                 driverImages, image_count, imagesResult, swapchainImages, frameworkInits,
                 descriptorOps, restVars>>

\* Task 1.3: glfwCreateWindowSurface.
Task1_3 ==
  /\ pc = "t1_3"
  /\ \E o \in Outcomes :
       CheckedCreate(o, "glfwCreateWindowSurface", "surface", "vk_surface",
                     "No VkSurfaceKHR created or handle not assigned.", "t1_4")
  /\ UNCHANGED <<oobRead, extensionsSupported, layerSupported, num_physical_devices, idx_phys_device, queue_families,
                 selected_queue_family_index, queue_family_count, minImageCount,
                 driverImages, image_count, imagesResult, swapchainImages, frameworkInits,
                 descriptorOps, restVars>>

\* hlpSelectPhysicalDeviceIndex: returns the index of a device it considers
\* suitable; the choice when no enumerated device is suitable is left open
\* (an index, or termination).
SelectorResults(n) == (0..n) \cup {NoIndex}

\* Task 1.4: both vkEnumeratePhysicalDevices calls, the selector, the read of
\* phys_devices[idx_phys_device] and the null check.
Task1_4 ==
  /\ pc = "t1_4"
  /\ \E n \in 0..MaxDevices, r1 \in VkResults, r2 \in VkResults,
        idx \in SelectorResults(MaxDevices), garbage \in BOOLEAN :
       /\ idx \in SelectorResults(n)
       /\ IF ResultIsFatal(r1) \/ ResultIsFatal(r2)
          THEN /\ VKL_EXIT_WITH_ERROR("vkEnumeratePhysicalDevices")
               /\ UNCHANGED <<num_physical_devices, idx_phys_device, nonnull, oobRead>>
          ELSE IF idx = NoIndex
          THEN /\ VKL_EXIT_WITH_ERROR("Unable to find a suitable physical device")
               /\ num_physical_devices' = n
               /\ UNCHANGED <<idx_phys_device, nonnull, oobRead>>
          ELSE IF idx >= n
          THEN \* read past the end of phys_devices: a null handle, or garbage
               \* whose first use ends the process abnormally
               /\ num_physical_devices' = n
               /\ idx_phys_device' = idx
               /\ oobRead' = TRUE
               /\ UNCHANGED nonnull
               /\ IF garbage
                  THEN /\ pc' = "exited"
                       /\ exitCode' = 2
                       /\ failedAt' = "abnormal termination"
                  ELSE VKL_EXIT_WITH_ERROR("No VkPhysicalDevice selected or handle not assigned.")
          ELSE /\ num_physical_devices' = n
               /\ idx_phys_device' = idx
               /\ nonnull' = nonnull \cup {"vk_physical_device"}
               /\ UNCHANGED oobRead
               /\ Goto("t1_5")
  /\ UNCHANGED <<created, failedCall, extensionsSupported, layerSupported, queue_families, selected_queue_family_index,
                 queue_family_count, minImageCount, driverImages, image_count, imagesResult,
                 swapchainImages, frameworkInits, descriptorOps, restVars>>

\* Task 1.5, the call selectQueueFamilyIndex(vk_physical_device, vk_surface):
\* the function reads the device's families from the driver into its local
\* vector and returns the index found, or exits the process.
Task1_5 ==
  /\ pc = "t1_5"
  /\ \E fams \in SeqsUpTo(QueueFamily, MaxFamilies) :
       /\ queue_families' = fams
       /\ IF selectQueueFamilyIndex(fams) = NoIndex
          THEN /\ VKL_EXIT_WITH_ERROR("Unable to find a suitable queue family")
               /\ UNCHANGED selected_queue_family_index
          ELSE /\ selected_queue_family_index' = selectQueueFamilyIndex(fams)
               /\ Goto("t1_5_check")
  /\ UNCHANGED <<created, nonnull, oobRead, failedCall, extensionsSupported, layerSupported, num_physical_devices,
                 idx_phys_device, queue_family_count, minImageCount, driverImages,
                 image_count, imagesResult, swapchainImages, frameworkInits, descriptorOps, restVars>>

\* Task 1.5, the sanity check: the family count is read from the driver again
\* and compared with the index; the function's vector is gone by now.
Task1_5_Check ==
  /\ pc = "t1_5_check"
  /\ queue_family_count' = Len(queue_families)
  /\ queue_families' = <<>>
  /\ IF selected_queue_family_index >= Len(queue_families)
     THEN VKL_EXIT_WITH_ERROR("Invalid queue family index selected.")
     ELSE Goto("t1_6")
  /\ UNCHANGED <<created, nonnull, oobRead, failedCall, extensionsSupported, layerSupported, num_physical_devices,
                 idx_phys_device, selected_queue_family_index, minImageCount,
                 driverImages, image_count, imagesResult, swapchainImages, frameworkInits,
                 descriptorOps, restVars>>

\* Task 1.6: vkCreateDevice (checked), vkGetDeviceQueue, null check of the queue.
Task1_6 ==
  /\ pc = "t1_6"
  /\ \E o \in Outcomes, queueOk \in BOOLEAN :
       IF o # "ok"
       THEN CheckedCreate(o, "vkCreateDevice", "device", "vk_device",
                          "No VkDevice created or handle not assigned.", "t1_7")
       ELSE IF queueOk
       THEN /\ created' = Append(created, "device")
            /\ nonnull' = nonnull \cup {"vk_device", "vk_queue"}
            /\ UNCHANGED failedCall
            /\ Goto("t1_7")
       ELSE /\ created' = Append(created, "device")
            /\ nonnull' = nonnull \cup {"vk_device"}
            /\ failedCall' = IF failedCall = "" THEN "vkGetDeviceQueue" ELSE failedCall
            /\ VKL_EXIT_WITH_ERROR("No VkQueue selected or handle not assigned.")
  /\ UNCHANGED <<oobRead, extensionsSupported, layerSupported, num_physical_devices, idx_phys_device, queue_families,
                 selected_queue_family_index, queue_family_count, minImageCount,
                 driverImages, image_count, imagesResult, swapchainImages, frameworkInits,
                 descriptorOps, restVars>>

\* Task 1.7: surface capabilities, vkCreateSwapchainKHR (checked),
\* vkGetSwapchainImagesKHR into minImageCount slots, the empty check and the
\* image count check.
Task1_7 ==
  /\ pc = "t1_7"
  /\ \E min \in 1..MaxImages, actual \in 1..(MaxImages + 1), o \in Outcomes, r \in VkResults :
       /\ minImageCount' = min
       /\ IF o # "ok"
          THEN /\ CheckedCreate(o, "vkCreateSwapchainKHR", "swapchain", "vk_swapchain",
                                "No VkSwapchainKHR created or handle not assigned.", "t1_8")
               /\ UNCHANGED <<driverImages, image_count, imagesResult>>
          ELSE /\ created' = Append(created, "swapchain")
               /\ nonnull' = nonnull \cup {"vk_swapchain"}
               /\ driverImages' = actual
               /\ image_count' = ImagesWritten(min, actual)
               /\ imagesResult' = ImagesResult(min, actual, r)
               /\ IF ResultIsFatal(ImagesResult(min, actual, r))
                  THEN /\ failedCall' = IF failedCall = "" THEN "vkGetSwapchainImagesKHR"
                                        ELSE failedCall
                       /\ VKL_EXIT_WITH_ERROR("vkGetSwapchainImagesKHR")
                  ELSE /\ UNCHANGED failedCall
                       /\ IF min = 0
                          THEN VKL_EXIT_WITH_ERROR("Swap chain images not retrieved.")
                          ELSE IF ImagesWritten(min, actual) # min
                          THEN VKL_EXIT_WITH_ERROR("image count mismatch")
                          ELSE Goto("t1_8")
  /\ UNCHANGED <<oobRead, extensionsSupported, layerSupported, num_physical_devices, idx_phys_device, queue_families,
                 selected_queue_family_index, queue_family_count, swapchainImages,
                 frameworkInits, descriptorOps, restVars>>

\* Variant: the last element of swap_chain_images gets no composition.
FramebufferCompositionsShort(n) ==
  [i \in 1..(n - 1) |-> [imageHandle |-> i, depthImageHandle |-> "VK_NULL_HANDLE"]]

\* One VklSwapchainFramebufferComposition per element of swap_chain_images.
FramebufferCompositions(n) ==
  [i \in 1..n |-> [imageHandle |-> i, depthImageHandle |-> "VK_NULL_HANDLE"]]

\* Task 1.8: build swapchain_config and call vklInitFramework.
Task1_8 ==
  /\ pc = "t1_8"
  /\ swapchainImages' = FramebufferCompositions(minImageCount)
  /\ frameworkInits' = frameworkInits + 1
  /\ \E ok \in BOOLEAN :
       IF ok
       THEN /\ created' = Append(created, "framework")
            /\ Goto("pipeline")
       ELSE /\ VKL_EXIT_WITH_ERROR("Failed to init Vulkan Launchpad")
            /\ UNCHANGED created
  /\ UNCHANGED <<nonnull, oobRead, failedCall, extensionsSupported, layerSupported, num_physical_devices, idx_phys_device,
                 queue_families, selected_queue_family_index, queue_family_count,
                 minImageCount, driverImages, image_count, imagesResult, descriptorOps, restVars>>

(* ----------------------- frame resource wiring ------------------------ *)
\* A use of a null or invalid handle by a driver call: the process may end
\* abnormally at that call.
AbnormalTermination ==
  /\ pc' = "exited"
  /\ exitCode' = 2
  /\ failedAt' = "abnormal termination"

\* A creation call of the framework or the geometry provider; main checks
\* nothing after it, a failure inside the collaborator is fatal there.
CollaboratorCreate(ok, call, object, handle, next) ==
  IF ok
  THEN /\ created' = Append(created, object)
       /\ nonnull' = nonnull \cup {handle}
       /\ UNCHANGED failedCall
       /\ Goto(next)
  ELSE /\ failedCall' = IF failedCall = "" THEN call ELSE failedCall
       /\ UNCHANGED <<created, nonnull>>
       /\ VKL_EXIT_WITH_ERROR(call)

wiringRest == <<oobRead, extensionsSupported, layerSupported, num_physical_devices, idx_phys_device, queue_families,
                selected_queue_family_index, queue_family_count, minImageCount,
                driverImages, image_count, imagesResult, swapchainImages, frameworkInits,
                inputVars, loopVars, teardownVars, inFlight, shouldClose>>

\* vklCreateGraphicsPipeline(pipeline_config)
CreatePipeline ==
  /\ pc = "pipeline"
  /\ \E ok \in BOOLEAN :
       CollaboratorCreate(ok, "vklCreateGraphicsPipeline", "pipeline", "vk_pipeline", "uniform")
  /\ UNCHANGED <<wiringRest, uniformVars, descriptorOps>>

\* vklCreateHostCoherentBufferWithBackingMemory, then the initial
\* vklCopyDataIntoHostCoherentBuffer of uniform_buffer_data.
CreateUniformBuffer ==
  /\ pc = "uniform"
  /\ \E ok \in BOOLEAN :
       /\ CollaboratorCreate(ok, "vklCreateHostCoherentBufferWithBackingMemory",
                             "uniform_buffer", "vk_uniform_buffer", "desc_pool")
       /\ gpuBuffer' = IF ok THEN uniform_buffer_data ELSE gpuBuffer
  /\ UNCHANGED <<wiringRest, uniform_buffer_data, cameraMatrix, descriptorOps>>

\* A descriptor creation call whose status goes through
\* VKL_CHECK_VULKAN_RESULT but whose handle is never compared with null.
StatusCheckedCreate(o, call, object, handle, next) ==
  IF o = "ok"
  THEN /\ created' = Append(created, object)
       /\ nonnull' = nonnull \cup {handle}
       /\ UNCHANGED failedCall
       /\ Goto(next)
  ELSE /\ failedCall' = IF failedCall = "" THEN call ELSE failedCall
       /\ UNCHANGED <<created, nonnull>>
       /\ IF o = "error" THEN VKL_EXIT_WITH_ERROR(call) ELSE Goto(next)

\* A creation call whose status is stored in 'result' and never looked at.
UncheckedCreate(o, call, object, handle, next) ==
  IF o = "ok"
  THEN /\ created' = Append(created, object)
       /\ nonnull' = nonnull \cup {handle}
       /\ UNCHANGED failedCall
       /\ Goto(next)
  ELSE /\ failedCall' = IF failedCall = "" THEN call ELSE failedCall
       /\ UNCHANGED <<created, nonnull>>
       /\ Goto(next)

\* vkCreateDescriptorPool + VKL_CHECK_VULKAN_RESULT
CreateDescriptorPool ==
  /\ pc = "desc_pool"
  /\ descriptorOps' = Append(descriptorOps, "pool")
  /\ \E o \in Outcomes :
       StatusCheckedCreate(o, "vkCreateDescriptorPool", "descriptor_pool",
                           "vk_descriptor_pool", "desc_layout")
  /\ UNCHANGED <<wiringRest, uniformVars>>

\* vkCreateDescriptorSetLayout + VKL_CHECK_VULKAN_RESULT
CreateDescriptorSetLayout ==
  /\ pc = "desc_layout"
  /\ descriptorOps' = Append(descriptorOps, "layout")
  /\ \E o \in Outcomes :
       StatusCheckedCreate(o, "vkCreateDescriptorSetLayout", "descriptor_set_layout",
                           "vk_descriptor_set_layout", "desc_alloc")
  /\ UNCHANGED <<wiringRest, uniformVars>>

\* vkAllocateDescriptorSets: with a valid pool and layout any outcome; with a
\* null pool or layout the call cannot succeed and may end the process.
AllocateDescriptorSet ==
  /\ pc = "desc_alloc"
  /\ descriptorOps' = Append(descriptorOps, "alloc")
  /\ \E o \in Outcomes, crash \in BOOLEAN :
       IF {"vk_descriptor_pool", "vk_descriptor_set_layout"} \subseteq nonnull
       THEN /\ ~crash
            /\ UncheckedCreate(o, "vkAllocateDescriptorSets", "descriptor_set",
                               "vk_descriptor_set", "desc_write")
       ELSE /\ o # "ok"
            /\ IF crash
               THEN /\ AbnormalTermination
                    /\ UNCHANGED <<created, nonnull, failedCall>>
               ELSE UncheckedCreate(o, "vkAllocateDescriptorSets", "descriptor_set",
                                    "vk_descriptor_set", "desc_write")
  /\ UNCHANGED <<wiringRest, uniformVars>>

\* vkUpdateDescriptorSets for binding 0; with a null descriptor set the call
\* may end the process or have no effect.
WriteDescriptorSet ==
  /\ pc = "desc_write"
  /\ descriptorOps' = Append(descriptorOps, "write")
  /\ \E crash \in BOOLEAN :
       IF "vk_descriptor_set" \in nonnull
       THEN /\ ~crash
            /\ Goto("camera")
       ELSE IF crash THEN AbnormalTermination ELSE Goto("camera")
  /\ UNCHANGED <<created, nonnull, failedCall, wiringRest, uniformVars>>

\* vklCreateCamera(window)
CreateCamera ==
  /\ pc = "camera"
  /\ created' = Append(created, "camera")
  /\ nonnull' = nonnull \cup {"camera"}
  /\ cameraMatrix' \in CameraMatrices
  /\ Goto("geometry")
  /\ UNCHANGED <<failedCall, wiringRest, uniform_buffer_data, gpuBuffer, descriptorOps>>

\* teapotCreateGeometryAndBuffers()
CreateGeometry ==
  /\ pc = "geometry"
  /\ \E ok \in BOOLEAN :
       CollaboratorCreate(ok, "teapotCreateGeometryAndBuffers", "geometry", "teapot", "loop_top")
  /\ UNCHANGED <<wiringRest, uniformVars, descriptorOps>>

(* ------------------------------ key input ----------------------------- *)
\* handleGlfwKeyCallback(window, key, scancode, action, mods) applied to the
\* key-state map and the window's close flag.
\* Variant: the window is closed on the press of Escape, not on its release.
handleGlfwKeyCallbackOnPress(st, key, action) ==
  LET afterPress == IF action = GLFW_PRESS
                    THEN [st.keys EXCEPT ![key] = "true"] ELSE st.keys
      afterRelease == IF action = GLFW_RELEASE
                      THEN [afterPress EXCEPT ![key] = "false"] ELSE afterPress
  IN [keys |-> afterRelease,
      close |-> IF action = GLFW_PRESS /\ key = GLFW_KEY_ESCAPE THEN TRUE ELSE st.close]

handleGlfwKeyCallback(st, key, action) ==
  LET afterPress == IF action = GLFW_PRESS
                    THEN [st.keys EXCEPT ![key] = "true"] ELSE st.keys
      afterRelease == IF action = GLFW_RELEASE
                      THEN [afterPress EXCEPT ![key] = "false"] ELSE afterPress
  IN [keys |-> afterRelease,
      close |-> IF action = GLFW_RELEASE /\ key = GLFW_KEY_ESCAPE THEN TRUE ELSE st.close]

\* glfwPollEvents: the pending events reach the callback one by one, in order.
RECURSIVE DrainEvents(_, _)
DrainEvents(st, events) ==
  IF events = <<>> THEN st
  ELSE DrainEvents(handleGlfwKeyCallback(st, Head(events).key, Head(events).action),
                   Tail(events))

IsEscapeRelease(e) == e.key = GLFW_KEY_ESCAPE /\ e.action = GLFW_RELEASE

\* The most recent press or release per key after 'events' have been delivered.
RECURSIVE LastActions(_, _)
LastActions(last, events) ==
  IF events = <<>> THEN last
  ELSE LastActions(IF Head(events).action \in {GLFW_PRESS, GLFW_RELEASE}
                   THEN [last EXCEPT ![Head(events).key] = Head(events).action]
                   ELSE last,
                   Tail(events))

\* Variant: the query reports whether the map has an entry for the key.
isKeyDownIfPresent(keys, glfw_key_code) ==
  [result |-> keys[glfw_key_code] # "absent",
   keys   |-> IF keys[glfw_key_code] = "absent"
              THEN [keys EXCEPT ![glfw_key_code] = "false"] ELSE keys]

\* isKeyDown(glfw_key_code): g_isGlfwKeyDown[glfw_key_code]; the subscript of
\* the unordered_map inserts a value-initialised (false) entry for a key that
\* has none and the result is that entry.
isKeyDown(keys, glfw_key_code) ==
  [result |-> keys[glfw_key_code] = "true",
   keys   |-> IF keys[glfw_key_code] = "absent"
              THEN [keys EXCEPT ![glfw_key_code] = "false"] ELSE keys]

(* ------------------------------ render loop --------------------------- *)
\* The statements of the loop body, in program order.
LoopBody == <<"poll", "update_camera", "fetch_matrix", "copy_uniform", "wait_image",
              "start_recording", "draw", "end_recording", "present">>

IndexOf(seq, x) == CHOOSE i \in 1..Len(seq) : seq[i] = x

\* Variant: the uniform copy comes after the image wait.
LoopBodySwapped == <<"poll", "update_camera", "fetch_matrix", "wait_image", "copy_uniform",
                     "start_recording", "draw", "end_recording", "present">>
LoopSuccSwapped(step) ==
  IF IndexOf(LoopBodySwapped, step) = Len(LoopBodySwapped) THEN "loop_top"
  ELSE LoopBodySwapped[IndexOf(LoopBodySwapped, step) + 1]

\* Variant: the loop jumps back to the descriptor write after each frame.
LoopSuccRewire(step) ==
  IF IndexOf(LoopBody, step) = Len(LoopBody) THEN "desc_write"
  ELSE LoopBody[IndexOf(LoopBody, step) + 1]

\* Variant: an iteration is abandoned after the image wait when the close
\* flag is set.
LoopSuccBreakOnClose(step) ==
  IF IndexOf(LoopBody, step) = Len(LoopBody) \/ (step = "wait_image" /\ shouldClose)
  THEN "loop_top"
  ELSE LoopBody[IndexOf(LoopBody, step) + 1]

\* The statement executed after 'step': the next one of the body, or the
\* loop condition after the last.
LoopSucc(step) ==
  IF IndexOf(LoopBody, step) = Len(LoopBody) THEN "loop_top"
  ELSE LoopBody[IndexOf(LoopBody, step) + 1]

\* Variant: the body runs once before the flag is looked at (do-while).
LoopCondDoWhile(closeFlag) == ~closeFlag \/ itersStarted = 0

\* Variant: the loop condition does not look at the close flag.
LoopCondIgnoresClose(closeFlag) == TRUE

\* while (!glfwWindowShouldClose(window))
LoopCond(closeFlag) == ~closeFlag

\* Variant: the loop falls through to the cleanup without the idle wait.
AfterLoopNoWait == "cleanup"

\* The statement reached when the loop condition is false.
AfterLoop == "wait_idle"

\* One statement of the body: log it and move on.
Step(name) ==
  /\ pc = name
  /\ frameSteps' = Append(frameSteps, name)
  /\ Goto(LoopSucc(name))

\* The windowing system flags the window for closing (close button).
RequestClose ==
  /\ "window" \in nonnull
  /\ pc \notin {"exited", "done", "cleanup"}
  /\ ~shouldClose
  /\ shouldClose' = TRUE
  /\ UNCHANGED <<pc, exitCode, failedAt, bringupVars, inputVars, uniformVars, loopVars,
                 teardownVars, inFlight>>

\* The GPU finishes the frame rendered to one of the images in flight.
GpuRetire ==
  /\ pc \notin {"exited", "done"}
  /\ \E i \in inFlight : inFlight' = inFlight \ {i}
  /\ UNCHANGED <<pc, exitCode, failedAt, bringupVars, inputVars, uniformVars, loopVars,
                 teardownVars, shouldClose>>

\* Evaluation of the loop condition.
LoopTop ==
  /\ pc = "loop_top"
  /\ closedAtFirstCheck' = IF closedAtFirstCheck # "unset" THEN closedAtFirstCheck
                           ELSE IF shouldClose THEN "closed" ELSE "open"
  /\ IF LoopCond(shouldClose)
     THEN /\ itersStarted < MaxFrames
          /\ itersStarted' = itersStarted + 1
          /\ frameSteps' = <<>>
          /\ Goto(LoopBody[1])
     ELSE /\ Goto(AfterLoop)
          /\ UNCHANGED <<itersStarted, frameSteps>>
  /\ UNCHANGED <<bringupVars, inputVars, uniformVars, teardownVars, inFlight, shouldClose,
                 frames, curImage, nextImage, recording>>

\* glfwPollEvents()
PollEvents ==
  /\ Step("poll")
  /\ \E events \in SeqsUpTo(KeyEvents, MaxEvents) :
       LET st == DrainEvents([keys |-> g_isGlfwKeyDown, close |-> shouldClose], events) IN
         /\ g_isGlfwKeyDown' = st.keys
         /\ shouldClose' = st.close
         /\ escIter' = IF escIter = 0 /\ \E i \in 1..Len(events) : IsEscapeRelease(events[i])
                       THEN itersStarted ELSE escIter
         /\ lastKeyAction' = LastActions(lastKeyAction, events)
  /\ UNCHANGED keyCalls
  /\ UNCHANGED <<bringupVars, uniformVars, teardownVars, inFlight, itersStarted, frames,
                 curImage, nextImage, recording, closedAtFirstCheck>>

\* vklUpdateCamera(camera)
UpdateCamera ==
  /\ Step("update_camera")
  /\ cameraMatrix' \in CameraMatrices
  /\ UNCHANGED <<bringupVars, inputVars, teardownVars, inFlight, shouldClose,
                 uniform_buffer_data, gpuBuffer, itersStarted, frames, curImage,
                 nextImage, recording, closedAtFirstCheck>>

\* Variant: the iteration also overwrites the color field.
FetchMatrixAndColor ==
  /\ Step("fetch_matrix")
  /\ uniform_buffer_data' = [color |-> "black", transformation |-> cameraMatrix]
  /\ UNCHANGED <<bringupVars, inputVars, teardownVars, inFlight, shouldClose,
                 cameraMatrix, gpuBuffer, itersStarted, frames, curImage,
                 nextImage, recording, closedAtFirstCheck>>

\* matrix = vklGetCameraViewProjectionMatrix(camera);
\* uniform_buffer_data.transformation = matrix
FetchMatrix ==
  /\ Step("fetch_matrix")
  /\ uniform_buffer_data' = [uniform_buffer_data EXCEPT !.transformation = cameraMatrix]
  /\ UNCHANGED <<bringupVars, inputVars, teardownVars, inFlight, shouldClose,
                 cameraMatrix, gpuBuffer, itersStarted, frames, curImage,
                 nextImage, recording, closedAtFirstCheck>>

\* vklCopyDataIntoHostCoherentBuffer(vk_uniform_buffer, &uniform_buffer_data, size)
CopyUniform ==
  /\ Step("copy_uniform")
  /\ gpuBuffer' = uniform_buffer_data
  /\ UNCHANGED <<bringupVars, inputVars, teardownVars, inFlight, shouldClose,
                 cameraMatrix, uniform_buffer_data, itersStarted, frames, curImage,
                 nextImage, recording, closedAtFirstCheck>>

\* vklWaitForNextSwapchainImage(): returns once the next image is free again.
WaitForNextSwapchainImage ==
  /\ Step("wait_image")
  /\ nextImage \notin inFlight
  /\ curImage' = nextImage
  /\ nextImage' = (nextImage + 1) % image_count
  /\ UNCHANGED <<bringupVars, inputVars, uniformVars, teardownVars, inFlight, shouldClose,
                 itersStarted, frames, recording, closedAtFirstCheck>>

\* vklStartRecordingCommands()
StartRecordingCommands ==
  /\ Step("start_recording")
  /\ recording' = TRUE
  /\ UNCHANGED <<bringupVars, inputVars, uniformVars, teardownVars, inFlight, shouldClose,
                 itersStarted, frames, curImage, nextImage, closedAtFirstCheck>>

\* teapotDraw(vk_pipeline, vk_descriptor_set); a null descriptor set may end
\* the process here.
TeapotDraw ==
  /\ pc = "draw"
  /\ frameSteps' = Append(frameSteps, "draw")
  /\ \E crash \in BOOLEAN :
       IF "vk_descriptor_set" \in nonnull
       THEN /\ ~crash
            /\ Goto(LoopSucc("draw"))
       ELSE IF crash THEN AbnormalTermination ELSE Goto(LoopSucc("draw"))
  /\ UNCHANGED <<bringupVars, inputVars, uniformVars, teardownVars, inFlight, shouldClose,
                 itersStarted, frames, curImage, nextImage, recording, closedAtFirstCheck>>

\* vklEndRecordingCommands(): the recorded work goes to the queue; it runs on
\* the GPU after the call has returned.
EndRecordingCommands ==
  /\ Step("end_recording")
  /\ recording' = FALSE
  /\ inFlight' = inFlight \cup {curImage}
  /\ UNCHANGED <<bringupVars, inputVars, uniformVars, teardownVars, shouldClose,
                 itersStarted, frames, curImage, nextImage, closedAtFirstCheck>>

\* vklPresentCurrentSwapchainImage()
PresentCurrentSwapchainImage ==
  /\ Step("present")
  /\ frames' = frames + 1
  /\ curImage' = -1
  /\ UNCHANGED <<bringupVars, inputVars, uniformVars, teardownVars, inFlight, shouldClose,
                 itersStarted, nextImage, recording, closedAtFirstCheck>>

(* ------------------------------ shutdown ------------------------------ *)
\* vkDeviceWaitIdle(vk_device): returns when the queue has no work left.
DeviceWaitIdle ==
  /\ pc = "wait_idle"
  /\ inFlight = {}
  /\ idleDone' = TRUE
  /\ Goto("cleanup")
  /\ UNCHANGED <<bringupVars, inputVars, uniformVars, loopVars, inFlight, shouldClose,
                 destroyed, cleanupIdx>>

\* Task 1.10: the objects the cleanup statements release, in program order
\* (vklDestroyCamera, vklDestroyHostCoherentBufferAndItsBackingMemory,
\* vklDestroyGraphicsPipeline, teapotDestroyBuffers, vklDestroyFramework,
\* glfwTerminate).
CleanupOrderSwapped == <<"camera", "pipeline", "uniform_buffer", "geometry", "framework", "window">>

\* Variant: the uniform buffer is released before the camera.
CleanupOrderCameraLate == <<"uniform_buffer", "camera", "pipeline", "geometry", "framework", "window">>

CleanupOrder == <<"camera", "uniform_buffer", "pipeline", "geometry", "framework", "window">>

\* One cleanup statement.
CleanupStep ==
  /\ pc = "cleanup"
  /\ cleanupIdx < Len(CleanupOrder)
  /\ destroyed' = Append(destroyed, CleanupOrder[cleanupIdx + 1])
  /\ cleanupIdx' = cleanupIdx + 1
  /\ UNCHANGED <<pc, exitCode, failedAt, bringupVars, inputVars, uniformVars, loopVars,
                 inFlight, shouldClose, idleDone>>

\* return EXIT_SUCCESS
ReturnSuccess ==
  /\ pc = "cleanup"
  /\ cleanupIdx = Len(CleanupOrder)
  /\ pc' = "done"
  /\ exitCode' = 0
  /\ UNCHANGED <<failedAt, bringupVars, inputVars, uniformVars, loopVars, teardownVars,
                 inFlight, shouldClose>>

Next ==
  \/ GlfwInit
  \/ Task1_1
  \/ Task1_2
  \/ Task1_3
  \/ Task1_4
  \/ Task1_5
  \/ Task1_5_Check
  \/ Task1_6
  \/ Task1_7
  \/ Task1_8
  \/ CreatePipeline
  \/ CreateUniformBuffer
  \/ CreateDescriptorPool
  \/ CreateDescriptorSetLayout
  \/ AllocateDescriptorSet
  \/ WriteDescriptorSet
  \/ CreateCamera
  \/ CreateGeometry
  \/ RequestClose
  \/ GpuRetire
  \/ LoopTop
  \/ PollEvents
  \/ UpdateCamera
  \/ FetchMatrix
  \/ CopyUniform
  \/ WaitForNextSwapchainImage
  \/ StartRecordingCommands
  \/ TeapotDraw
  \/ EndRecordingCommands
  \/ PresentCurrentSwapchainImage
  \/ DeviceWaitIdle
  \/ CleanupStep
  \/ ReturnSuccess

Spec == Init /\ [][Next]_vars

\* The statements of main from the loop condition to the return: the thread
\* keeps executing them whenever one can be executed.
MainLoopStep ==
  \/ LoopTop
  \/ PollEvents
  \/ UpdateCamera
  \/ FetchMatrix
  \/ CopyUniform
  \/ WaitForNextSwapchainImage
  \/ StartRecordingCommands
  \/ TeapotDraw
  \/ EndRecordingCommands
  \/ PresentCurrentSwapchainImage
  \/ DeviceWaitIdle
  \/ CleanupStep
  \/ ReturnSuccess

\* The state in which the loop condition is first evaluated after a bring-up
\* in which every call succeeded: one device, one queue family, a swapchain
\* of n images, all thirteen objects created and every handle non-null.
LoopEntry ==
  /\ pc = "loop_top"
  /\ exitCode = -1
  /\ failedAt = ""
  /\ failedCall = ""
  /\ created = <<"window", "instance", "surface", "device", "swapchain", "framework",
                 "pipeline", "uniform_buffer", "descriptor_pool", "descriptor_set_layout",
                 "descriptor_set", "camera", "geometry">>
  /\ nonnull = {"window", "vk_instance", "vk_surface", "vk_physical_device", "vk_device",
                "vk_queue", "vk_swapchain", "vk_pipeline", "vk_uniform_buffer",
                "vk_descriptor_pool", "vk_descriptor_set_layout", "vk_descriptor_set",
                "camera", "teapot"}
  /\ destroyed = <<>>
  /\ oobRead = FALSE
  /\ extensionsSupported = "yes"
  /\ layerSupported = "yes"
  /\ num_physical_devices = 1
  /\ idx_phys_device = 0
  /\ queue_families = <<>>
  /\ selected_queue_family_index = 0
  /\ queue_family_count = 1
  /\ \E n \in 1..MaxImages :
       /\ minImageCount = n
       /\ driverImages = n
       /\ image_count = n
       /\ swapchainImages = FramebufferCompositions(n)
  /\ imagesResult = VK_SUCCESS
  /\ frameworkInits = 1
  /\ descriptorOps = <<"pool", "layout", "alloc", "write">>
  /\ shouldClose = FALSE
  /\ g_isGlfwKeyDown = [k \in KeyCodes |-> "absent"]
  /\ lastKeyAction = [k \in KeyCodes |-> "none"]
  /\ keyCalls = 0
  /\ escIter = 0
  /\ uniform_buffer_data = [color |-> InitialColor, transformation |-> InitialTransformation]
  /\ gpuBuffer = uniform_buffer_data
  /\ cameraMatrix \in CameraMatrices
  /\ itersStarted = 0
  /\ frames = 0
  /\ frameSteps = <<>>
  /\ curImage = -1
  /\ nextImage = 0
  /\ inFlight = {}
  /\ recording = FALSE
  /\ idleDone = FALSE
  /\ cleanupIdx = 0
  /\ closedAtFirstCheck = "unset"

\* From the loop on: the statements of main, the GPU and the close button.
LiveNext ==
  \/ MainLoopStep
  \/ GpuRetire
  \/ RequestClose

\* The program from the loop on, where main keeps running, the GPU finishes
\* every frame submitted to it (so both blocking waits return) and the window
\* is eventually asked to close.
LiveSpec ==
  /\ LoopEntry
  /\ [][LiveNext]_vars
  /\ WF_vars(MainLoopStep)
  /\ WF_vars(GpuRetire)
  /\ WF_vars(RequestClose)

(* ------------------------ the key handlers alone ---------------------- *)
\* The two key functions driven directly, one call at a time, from the state
\* in which the map is empty and the close flag is clear.
otherVars == <<pc, exitCode, failedAt, bringupVars, escIter, uniformVars, loopVars,
               teardownVars, inFlight>>

\* One invocation of handleGlfwKeyCallback with any key and action.
KeyCallbackCall ==
  /\ keyCalls < MaxKeyCalls
  /\ \E e \in KeyEvents :
       LET st == handleGlfwKeyCallback([keys |-> g_isGlfwKeyDown, close |-> shouldClose],
                                       e.key, e.action) IN
         /\ g_isGlfwKeyDown' = st.keys
         /\ shouldClose' = st.close
         /\ lastKeyAction' = LastActions(lastKeyAction, <<e>>)
  /\ keyCalls' = keyCalls + 1
  /\ UNCHANGED otherVars

\* One call of isKeyDown: the map gets the entry the subscript inserts.
IsKeyDownCall ==
  /\ \E k \in KeyCodes :
       /\ g_isGlfwKeyDown[k] = "absent"
       /\ g_isGlfwKeyDown' = isKeyDown(g_isGlfwKeyDown, k).keys
  /\ UNCHANGED <<otherVars, shouldClose, lastKeyAction, keyCalls>>

KeyNext ==
  \/ KeyCallbackCall
  \/ IsKeyDownCall

KeySpec == Init /\ [][KeyNext]_vars

(* ============================== properties ============================ *)
Range(seq) == {seq[i] : i \in 1..Len(seq)}
IsPrefix(a, b) == Len(a) <= Len(b) /\ a = SubSeq(b, 1, Len(a))
Suitable(f) == f.graphics /\ f.present
HasSuitable(fams) == \E i \in 1..Len(fams) : Suitable(fams[i])
NoSuitableMsg == "Unable to find a suitable queue family"

\* C1: whenever selectQueueFamilyIndex returns, the index it returns is the
\* lowest index of a family that is both graphics-capable and able to present,
\* and it returns for every list that holds such a family (it terminates the
\* process only for lists that hold none).
C1_LowestSuitableFamily ==
  /\ pc = "t1_5_check" =>
       /\ selected_queue_family_index \in 0..(Len(queue_families) - 1)
       /\ Suitable(queue_families[selected_queue_family_index + 1])
       /\ \A j \in 1..selected_queue_family_index : ~Suitable(queue_families[j])
  /\ failedAt = NoSuitableMsg => ~HasSuitable(queue_families)

\* The function returned index 1 for a list whose family 0 is graphics-only.
C1_Witness ==
  /\ pc = "t1_5_check"
  /\ Len(queue_families) = 2
  /\ queue_families[1] = [graphics |-> TRUE, present |-> FALSE]
  /\ Suitable(queue_families[2])
  /\ selected_queue_family_index = 1

\* C2: when no family of the device is both graphics- and presentation-capable
\* the selection never returns: the run ends in the fatal error with no index
\* assigned and no logical device created; and an index that was returned and
\* is used for the device is always below the family count.
C2_NoSuitableFamilyIsFatal ==
  /\ pc = "t1_5_check" => HasSuitable(queue_families)
  /\ failedAt = NoSuitableMsg =>
       /\ pc = "exited"
       /\ exitCode = 1
       /\ selected_queue_family_index = NoIndex
       /\ "device" \notin Range(created)
       /\ "vk_device" \notin nonnull
  /\ ("device" \in Range(created) \/ pc = "t1_6") =>
       selected_queue_family_index \in 0..(queue_family_count - 1)

\* The run ended in the fatal error on a device whose only family is graphics-only.
C2_Witness ==
  /\ pc = "exited"
  /\ failedAt = NoSuitableMsg
  /\ queue_families = <<[graphics |-> TRUE, present |-> FALSE]>>
  /\ "device" \notin Range(created)

\* C3 (as claimed): past Task 1.7 the retrieved image count equals the
\* requested minimum, and a swapchain holding a different number of images
\* (fewer or more), whose images the retrieval call did not fail to deliver,
\* ends bring-up on the 'image count mismatch' path with the framework never
\* initialised.
C3_ImageCountMismatchIsFatal ==
  /\ ("swapchain" \in Range(created) /\ pc \notin {"t1_7", "exited"}) =>
       image_count = minImageCount
  /\ ("swapchain" \in Range(created) /\ driverImages # minImageCount
        /\ imagesResult # VK_ERROR) =>
       /\ pc = "exited"
       /\ failedAt = "image count mismatch"
       /\ frameworkInits = 0

\* C4: the steps of an iteration happen once each and in the order poll,
\* camera update, matrix fetch, uniform copy, image wait, start recording,
\* draw, end recording, present; an iteration is entered only when the
\* previous one has presented.
C4_Order == <<"poll", "update_camera", "fetch_matrix", "copy_uniform", "wait_image",
              "start_recording", "draw", "end_recording", "present">>
C4_LoopStepOrder ==
  /\ IsPrefix(frameSteps, C4_Order)
  /\ pc \in Range(C4_Order) =>
       /\ pc = C4_Order[Len(frameSteps) + 1]
       /\ itersStarted = frames + 1
  /\ pc \in {"loop_top", "wait_idle", "cleanup", "done"} =>
       /\ itersStarted = frames
       /\ frameSteps = IF itersStarted = 0 THEN <<>> ELSE C4_Order

\* Two iterations done, the second with all nine steps in order.
C4_Witness ==
  /\ pc = "loop_top"
  /\ frames = 2
  /\ frameSteps = C4_Order

\* C5: nothing is released before vkDeviceWaitIdle has returned, no frame
\* operation is under way or issued once something has been released, and no
\* frame is in flight on the GPU while any resource is destroyed.
C5_IdleBeforeRelease ==
  /\ pc = "cleanup" => idleDone
  /\ destroyed # <<>> =>
       /\ idleDone
       /\ inFlight = {}
       /\ ~recording
       /\ curImage = -1
       /\ pc \in {"cleanup", "done"}

\* Resources are being released after at least one frame went to the GPU.
C5_Witness ==
  /\ frames >= 1
  /\ Len(destroyed) >= 1
  /\ idleDone

\* C6: teardown releases camera, uniform buffer, pipeline, geometry buffers,
\* framework, window in exactly this sequence, each once, and a normal exit
\* has released all six.
C6_Order == <<"camera", "uniform_buffer", "pipeline", "geometry", "framework", "window">>
C6_TeardownSequence ==
  /\ IsPrefix(destroyed, C6_Order)
  /\ pc = "done" => destroyed = C6_Order

\* A normal exit with the six releases done.
C6_Witness ==
  /\ pc = "done"
  /\ destroyed = C6_Order

\* C7: if the close flag is set when the loop condition is first evaluated,
\* no iteration is entered (no poll, no upload, no acquire, no recording, no
\* present), the run goes on to the idle wait and the full teardown, and the
\* exit status is 0.
C7_ZeroFramesOnEarlyClose ==
  closedAtFirstCheck = "closed" =>
    /\ itersStarted = 0
    /\ frames = 0
    /\ frameSteps = <<>>
    /\ g_isGlfwKeyDown = [k \in KeyCodes |-> "absent"]
    /\ gpuBuffer = [color |-> InitialColor, transformation |-> InitialTransformation]
    /\ curImage = -1
    /\ ~recording
    /\ inFlight = {}
    /\ pc \in {"wait_idle", "cleanup", "done"}
    /\ pc = "done" => idleDone /\ destroyed = C6_Order /\ exitCode = 0

\* The run ended normally after finding the flag set at the first check.
C7_Witness ==
  /\ closedAtFirstCheck = "closed"
  /\ pc = "done"
  /\ exitCode = 0
  /\ Len(destroyed) = 6

\* C8: once an Escape release has reached the key callback the close flag is
\* set, and no iteration is entered after the one that drained the event.
C8_EscapeReleaseStopsLoop ==
  escIter # 0 =>
    /\ shouldClose
    /\ itersStarted = escIter

\* The loop was left right after the first iteration, which drained an Escape release.
C8_Witness ==
  /\ escIter = 1
  /\ itersStarted = 1
  /\ pc = "wait_idle"

\* C9 (as claimed): when the process has terminated after a fatal bring-up
\* error, every object created before the failure has been released.
C9_NoLeakOnFatalError ==
  (pc = "exited" /\ exitCode = 1) => Range(created) \subseteq Range(destroyed)

\* C10 (as claimed): after a creation or allocation call has reported a
\* non-success status or yielded a null handle, nothing further runs: the
\* process has terminated.
C10_CreationFailureIsFatal ==
  failedCall # "" => pc = "exited"

\* C11: the context is built in the order instance, surface, physical device,
\* queue-family index, logical device, queue: none of them exists without all
\* the earlier ones, a step is entered only with every earlier handle set, and
\* Task 1.7 is reached only with all five handles non-null.
C11_Handles == {"vk_instance", "vk_surface", "vk_physical_device", "vk_device", "vk_queue"}
C11_ContextBuildOrder ==
  /\ "vk_surface" \in nonnull => "vk_instance" \in nonnull
  /\ "vk_physical_device" \in nonnull => "vk_surface" \in nonnull
  /\ selected_queue_family_index # NoIndex => "vk_physical_device" \in nonnull
  /\ "vk_device" \in nonnull =>
       selected_queue_family_index \in 0..(queue_family_count - 1)
  /\ "vk_queue" \in nonnull => "vk_device" \in nonnull
  /\ pc = "t1_3" => "vk_instance" \in nonnull
  /\ pc = "t1_4" => {"vk_instance", "vk_surface"} \subseteq nonnull
  /\ pc \in {"t1_5", "t1_5_check", "t1_6"} =>
       {"vk_instance", "vk_surface", "vk_physical_device"} \subseteq nonnull
  /\ pc = "t1_7" => C11_Handles \subseteq nonnull
  /\ "swapchain" \in Range(created) => C11_Handles \subseteq nonnull

\* Task 1.7 reached with the five handles set.
C11_Witness ==
  /\ pc = "t1_7"
  /\ C11_Handles \subseteq nonnull
  /\ created = <<"window", "instance", "surface", "device">>

C13_NoWriteBeforeRetire ==
  [][(pc = "copy_uniform" /\ pc' = "wait_image") => nextImage \notin inFlight]_vars

\* C14: descriptor pool, layout, set allocation and the write to binding 0
\* happen once each, in this order, all before the first iteration; the loop
\* creates nothing and only uploads the uniform data.
C14_Ops == <<"pool", "layout", "alloc", "write">>
C14_DescriptorsWiredOnce ==
  /\ IsPrefix(descriptorOps, C14_Ops)
  /\ (itersStarted > 0 \/ pc \in {"loop_top", "wait_idle", "cleanup", "done"}) =>
       /\ descriptorOps = C14_Ops
       /\ created[Len(created)] = "geometry"
       /\ Len(created) <= 13
  /\ Cardinality(Range(created)) = Len(created)

\* Two frames rendered with new uniform contents, descriptors wired once.
C14_Witness ==
  /\ frames = 2
  /\ descriptorOps = C14_Ops
  /\ gpuBuffer.transformation \in CameraMatrices

\* C15: the uniform data changes only in the matrix fetch of an iteration and
\* only in its transformation field; the color keeps its initial value; the
\* buffer changes only in a copy call and then holds the data just copied.
C15_UniformUpdate ==
  /\ [](uniform_buffer_data.color = InitialColor)
  /\ []("uniform_buffer" \in Range(created) => gpuBuffer.color = InitialColor)
  /\ [][uniform_buffer_data' # uniform_buffer_data =>
          /\ pc = "fetch_matrix"
          /\ frameSteps' = <<"poll", "update_camera", "fetch_matrix">>
          /\ uniform_buffer_data'.color = uniform_buffer_data.color]_vars
  /\ [][/\ pc \notin {"uniform", "copy_uniform"} => UNCHANGED gpuBuffer
        /\ (pc \in {"uniform", "copy_uniform"} /\ pc' \notin {pc, "exited"}) =>
             gpuBuffer' = uniform_buffer_data]_vars

\* An iteration has replaced the transformation and copied it to the buffer.
C15_Witness ==
  /\ frames >= 1
  /\ uniform_buffer_data.transformation \in CameraMatrices
  /\ uniform_buffer_data.color = InitialColor
  /\ gpuBuffer = uniform_buffer_data

\* C16: the framework is initialised at most once, before the first
\* iteration, with one composition per retrieved swapchain image, each with
\* that image's handle and no depth image; the set it was given stays as it is.
C16_CompositionsHandedOnce ==
  /\ frameworkInits \in {0, 1}
  /\ frameworkInits = 0 => swapchainImages = <<>>
  /\ frameworkInits = 1 =>
       /\ Len(swapchainImages) = image_count
       /\ \A i \in 1..Len(swapchainImages) :
            /\ swapchainImages[i].imageHandle = i
            /\ swapchainImages[i].depthImageHandle = "VK_NULL_HANDLE"
  /\ (itersStarted > 0 \/ pc = "loop_top") => frameworkInits = 1

\* Frames rendered on a two-image swapchain with two compositions.
C16_Witness ==
  /\ frames >= 1
  /\ frameworkInits = 1
  /\ image_count = 2
  /\ Len(swapchainImages) = 2

\* C17: at every point of a run, for every key, isKeyDown returns true exactly
\* when the key's most recent press or release was a press; a key with no
\* event and no entry in the map yields false.
C17_KeyDownIffLastWasPress ==
  \A k \in KeyCodes :
    /\ isKeyDown(g_isGlfwKeyDown, k).result <=> lastKeyAction[k] = GLFW_PRESS
    /\ g_isGlfwKeyDown[k] = "absent" =>
         /\ lastKeyAction[k] = "none"
         /\ ~isKeyDown(g_isGlfwKeyDown, k).result
         /\ isKeyDown(g_isGlfwKeyDown, k).keys[k] = "false"

\* One key is held down; another never had an event, was queried, and the
\* query left a false entry for it.
C17_Witness ==
  /\ lastKeyAction[GLFW_KEY_W] = GLFW_PRESS
  /\ isKeyDown(g_isGlfwKeyDown, GLFW_KEY_W).result
  /\ lastKeyAction[GLFW_KEY_ESCAPE] = "none"
  /\ g_isGlfwKeyDown[GLFW_KEY_ESCAPE] = "false"
  /\ ~isKeyDown(g_isGlfwKeyDown, GLFW_KEY_ESCAPE).result

\* C18 (as claimed): once the callback has run for a press of Escape, the
\* window is marked to close.
C18_EscapePressCloses ==
  lastKeyAction[GLFW_KEY_ESCAPE] = GLFW_PRESS => shouldClose

\* Among the resources in S, whatever was created later has been destroyed
\* earlier, for every two of them that have both been destroyed.
ReverseOn(S) ==
  destroyed # <<>> =>
    \A a, b \in S \cap Range(destroyed) :
      (/\ {a, b} \subseteq Range(created)
       /\ IndexOf(created, a) < IndexOf(created, b)) =>
         IndexOf(destroyed, b) < IndexOf(destroyed, a)

C19_Resources == {"window", "framework", "pipeline", "uniform_buffer", "camera", "geometry"}

\* C19 (as claimed): for every two of window, framework, pipeline, uniform
\* buffer, camera and geometry buffers, the one created later is destroyed
\* earlier.
C19_StrictReverse == ReverseOn(C19_Resources)

\* C19 (amended): the reverse order holds among window, framework, pipeline,
\* uniform buffer and camera; the geometry buffers, created last of the six,
\* are destroyed fourth, after the pipeline and before the framework.
C19_ReverseExceptGeometry ==
  destroyed # <<>> =>
    /\ ReverseOn(C19_Resources \ {"geometry"})
    /\ C19_Resources \subseteq Range(created)
    /\ created[Len(created)] = "geometry"
    /\ "geometry" \in Range(destroyed) =>
         /\ {"camera", "uniform_buffer", "pipeline"} \subseteq Range(destroyed)
         /\ IndexOf(destroyed, "geometry") = 4
         /\ IndexOf(destroyed, "pipeline") < IndexOf(destroyed, "geometry")
    /\ "framework" \in Range(destroyed) =>
         /\ "geometry" \in Range(destroyed)
         /\ IndexOf(destroyed, "geometry") < IndexOf(destroyed, "framework")

\* A normal exit: all six created, geometry last, and all six released.
C19_Witness ==
  /\ pc = "done"
  /\ C19_Resources \subseteq Range(created)
  /\ created[Len(created)] = "geometry"
  /\ C19_Resources \subseteq Range(destroyed)

\* C20: when the idle wait or the teardown is reached, no swapchain image is
\* held unpresented, no recording is open and every iteration entered has
\* presented; the iteration whose poll drained an Escape release has run all
\* nine steps, and the flag has only kept the next one from starting.
C20_CloseDoesNotCancelIteration ==
  /\ pc \in {"wait_idle", "cleanup", "done"} =>
       /\ curImage = -1
       /\ ~recording
       /\ frames = itersStarted
  /\ (escIter # 0 /\ pc \in {"loop_top", "wait_idle", "cleanup", "done"}) =>
       /\ frames = escIter
       /\ frameSteps = LoopBody
  /\ (escIter # 0 /\ pc \in Range(LoopBody)) =>
       /\ itersStarted = escIter
       /\ frames = escIter - 1

\* The second iteration drained an Escape release and still presented its
\* frame before the teardown began.
C20_Witness ==
  /\ escIter = 2
  /\ frames = 2
  /\ frameSteps = LoopBody
  /\ curImage = -1
  /\ pc = "cleanup"

\* C21 (as claimed): no handle is read from phys_devices outside its bounds;
\* with zero devices enumerated, or a selector result not below the number
\* of devices, bring-up has ended in a fatal error without such a read.
C21_NoReadOutsideDeviceList ==
  /\ ~oobRead
  /\ "vk_physical_device" \in nonnull =>
       /\ num_physical_devices > 0
       /\ idx_phys_device < num_physical_devices

\* C22 (as claimed): when the process has exited normally, every object
\* created during bring-up has been destroyed, and after the idle wait.
C22_AllDestroyedOnNormalExit ==
  pc = "done" =>
    /\ idleDone
    /\ Range(created) \subseteq Range(destroyed)

\* Running: the loop condition and the nine statements of the body.
\* ShuttingDown: the idle wait, the cleanup and the return.
C23_Running == {"loop_top"} \cup Range(LoopBody)
C23_ShuttingDown == {"wait_idle", "cleanup", "done"}

\* Bring-up has succeeded: the loop is reached with the descriptor set the
\* draw call uses allocated.
C23_BringUpSucceeded ==
  /\ pc = "loop_top"
  /\ itersStarted = 0
  /\ "vk_descriptor_set" \in nonnull

\* C23: after a successful bring-up, when main keeps running, the waits
\* return and a close request is delivered, the run leaves the loop, waits
\* for the device, completes the six cleanup statements and exits with
\* status 0; once the loop has been left no statement of it runs again.
C23_EventuallyExitsWithSuccess ==
  /\ C23_BringUpSucceeded ~>
       (pc = "done" /\ exitCode = 0 /\ idleDone /\ destroyed = CleanupOrder)
  /\ [][(pc \in C23_ShuttingDown) => (pc' \in C23_ShuttingDown)]_vars
  /\ [][(pc \in C23_Running /\ pc' \notin C23_Running) =>
          \/ pc = "loop_top" /\ shouldClose /\ pc' = "wait_idle"
          \/ pc = "draw" /\ pc' = "exited" /\ "vk_descriptor_set" \notin nonnull]_vars

\* A run closed by the window's close button after two frames has exited
\* with status 0.
C23_Witness ==
  /\ pc = "done"
  /\ exitCode = 0
  /\ frames = 2
  /\ escIter = 0
  /\ shouldClose
  /\ "vk_descriptor_set" \in nonnull

====
